---------------------------- MODULE Spec2Model ----------------------------
(***************************************************************************)
(* A model of asyncpg/_testbase/__init__.py: the asynchronous test         *)
(* harness (TestCaseMeta and its deadline wrapper, the loop-scoped         *)
(* assertion helpers) and the shared cluster fixture.                      *)
(*                                                                         *)
(* Each part of the harness has its own specification over its own         *)
(* variables; the other variables stay at their initial value.             *)
(*   SpecCluster   _start_default_cluster, _start_cluster,                 *)
(*                 _shutdown_cluster, ClusterTestCase.start_cluster        *)
(*   SpecRun       one invocation of a wrapped test method                 *)
(*   SpecTiming    TestCase.assertRunUnder                                 *)
(*   SpecHandler   TestCase.assertLoopErrorHandlerCalled                   *)
(*   SpecMeta      TestCaseMeta._iter_methods and __new__                  *)
(*   SpecProxied   ProxiedClusterTestCase and the hooks it inherits        *)
(*   SpecShutdown  _shutdown_cluster applied to one owned cluster          *)
(***************************************************************************)
EXTENDS Integers, Sequences, FiniteSets, TLC

(***************************************************************************)
(* Bounds of the model.                                                    *)
(***************************************************************************)
\* number of _start_default_cluster calls explored
MaxCalls == 2
\* number of direct ClusterTestCase.start_cluster calls explored
MaxExplicit == 1
\* number of steps of a test body
MaxSteps == 2
\* longest single step of a test body (besides those around the default)
MaxDur == 3
\* largest explicit __timeout__
MaxTimeout == 2
\* largest time.monotonic() value
MaxClock == 4
\* largest delta given to assertRunUnder
MaxDelta == 3
\* number of uses of assertLoopErrorHandlerCalled explored
MaxEntries == 2
\* number of loop.call_exception_handler calls explored
MaxCaptures == 2
\* number of class statements explored (besides TestCase itself)
MaxClasses == 2
\* largest number of bases of a class statement
MaxBases == 2
\* number of tests run in the proxied class
MaxTests == 2
\* number of connection specs produced in the proxied class
MaxSpecOps == 2
\* number of _shutdown_cluster invocations on one cluster
MaxShutdowns == 3
\* number of times test code restarts a cluster it stopped
MaxRestarts == 1

VARIABLES
    \* ---- the cluster fixture (module globals and the process) ----
    pghost,           \* os.environ.get('PGHOST') is truthy
    default_cluster,  \* the global _default_cluster: 0 is None, else a cluster id
    clusters,         \* every cluster object constructed so far, by id
    atexit_handlers,  \* atexit registry: cluster ids, in registration order
    callLog,          \* history: one entry per _start_default_cluster call
    explicitCalls,    \* history: number of start_cluster calls made
    phase,            \* "running" | "exiting" | "exited"
    \* ---- one invocation of a wrapped test method on the class's loop ----
    wpc,              \* "idle" | "running" | "done": where the wrapper is
    meth,             \* __meth__: the coroutine function the wrapper closes over
    timeout,          \* the wrapper's local `timeout`
    now,              \* loop.time()
    outer,            \* the task running asyncio.wait_for(coro, timeout)
    body,             \* the task (or main coroutine) running the test body
    waiter,           \* wait_for's waiter future: "none" | "pending" | "done"
    batch,            \* callbacks the current loop iteration still has to run
    ready,            \* loop._ready: callbacks scheduled with call_soon
    timers,           \* loop._scheduled: timer handles not yet due
    stopping,         \* loop.stop() was called
    outcome,          \* what the wrapper reported to the test runner
    hist,             \* history of the deadline timer, for the properties
    \* ---- one use of assertRunUnder ----
    rpc,              \* "idle" | "in_block" | "exited"
    mono,             \* time.monotonic()
    delta,            \* the argument of assertRunUnder
    st,               \* the local st
    elapsed,          \* the local elapsed
    blockExc,         \* the exception the wrapped block raised, or "none"
    propagated,       \* the exception that left assertRunUnder, or "none"
    \* ---- the loop's exception handler and assertLoopErrorHandlerCalled ----
    loop_handler,     \* loop.get_exception_handler()
    frames,           \* the uses of assertLoopErrorHandlerCalled now open
    entries,          \* history: number of uses entered
    captures,         \* history: number of call_exception_handler calls
    lastExit,         \* history: the last use that was left
    \* ---- the classes constructed so far ----
    classes,          \* by index: bases, __mro__, declared and final namespace
    \* ---- one ProxiedClusterTestCase class and its tests ----
    cpc,              \* "new" | "ready" | "in_test" | "torn_down" | "..._failed"
    cls_loop,         \* cls.loop: "none" | "open" | "closed"
    cls_cluster,      \* cls.cluster.get_connection_spec()
    proxy,            \* cls.proxy
    hooks,            \* history: the calls made by setUpClass and tearDownClass
    testLog,          \* history: one entry per test body started
    lastSpec,         \* history: the last connection spec produced
    specOps,          \* history: number of connection specs produced
    \* ---- one owned cluster and the teardowns applied to it ----
    sd_cluster,       \* the cluster object
    sd_log,           \* history: one entry per _shutdown_cluster invocation
    sd_restarts       \* history: number of times test code restarted it

clusterVars == <<pghost, default_cluster, clusters, atexit_handlers,
                 callLog, explicitCalls, phase>>

runVars == <<wpc, meth, timeout, now, outer, body, waiter, batch, ready,
             timers, stopping, outcome, hist>>

timingVars == <<rpc, mono, delta, st, elapsed, blockExc, propagated>>

handlerVars == <<loop_handler, frames, entries, captures, lastExit>>

metaVars == <<classes>>

proxyVars == <<cpc, cls_loop, cls_cluster, proxy, hooks, testLog, lastSpec,
               specOps>>

shutdownVars == <<sd_cluster, sd_log, sd_restarts>>

vars == <<clusterVars, runVars, timingVars, handlerVars, metaVars, proxyVars,
          shutdownVars>>

\* the variables each part leaves alone
notClusterVars ==
    <<runVars, timingVars, handlerVars, metaVars, proxyVars, shutdownVars>>
notRunVars ==
    <<clusterVars, timingVars, handlerVars, metaVars, proxyVars, shutdownVars>>
notTimingVars ==
    <<clusterVars, runVars, handlerVars, metaVars, proxyVars, shutdownVars>>
notHandlerVars ==
    <<clusterVars, runVars, timingVars, metaVars, proxyVars, shutdownVars>>
notMetaVars ==
    <<clusterVars, runVars, timingVars, handlerVars, proxyVars, shutdownVars>>
notProxyVars ==
    <<clusterVars, runVars, timingVars, handlerVars, metaVars, shutdownVars>>
notShutdownVars ==
    <<clusterVars, runVars, timingVars, handlerVars, metaVars, proxyVars>>

(***************************************************************************)
(* The cluster collaborator (asyncpg.cluster), as far as the harness uses  *)
(* it.  A cluster object records its status and every call made on it, in  *)
(* counters and, in order, in `calls`.                                     *)
(***************************************************************************)
\* the server_settings dictionaries the test classes pass:
\* ClusterTestCase.get_server_settings and ProxiedClusterTestCase's
Settings == {"log_connections", "log_connections+listen_addresses"}

\* where a collaborator call of _start_cluster raises, if anywhere
Failures == {"none", "init", "trust", "start"}

\* pg_cluster.TempCluster(**cluster_kwargs): a fresh, not yet started cluster
TempCluster(via) ==
    [cls |-> "TempCluster", via |-> via, status |-> "stopped",
     inits |-> 0, trusts |-> 0, startArgs |-> <<>>, started |-> 0,
     stops |-> 0, destroys |-> 0, calls |-> <<>>]

\* pg_cluster.RunningCluster(): an externally managed, already running server
RunningCluster ==
    [cls |-> "RunningCluster", via |-> "default", status |-> "running",
     inits |-> 0, trusts |-> 0, startArgs |-> <<>>, started |-> 0,
     stops |-> 0, destroys |-> 0, calls |-> <<>>]

\* cluster.init(); raises when ok is FALSE
Cluster_init(c, ok) ==
    [c EXCEPT !.inits = @ + 1,
              !.status = IF ok THEN "initialized" ELSE @,
              !.calls = Append(@, "init")]

\* cluster.trust_local_connections()
Cluster_trust_local_connections(c) ==
    [c EXCEPT !.trusts = @ + 1, !.calls = Append(@, "trust_local_connections")]

\* cluster.start(port='dynamic', server_settings=...); raises when ok is FALSE
Cluster_start(c, server_settings, ok) ==
    [c EXCEPT !.startArgs = Append(@, server_settings),
              !.started = IF ok THEN @ + 1 ELSE @,
              !.status = IF ok THEN "running" ELSE @,
              !.calls = Append(@, "start")]

\* cluster.get_status()
Cluster_get_status(c) == c.status

\* cluster.stop()
Cluster_stop(c) ==
    [c EXCEPT !.stops = @ + 1, !.status = "stopped",
              !.calls = Append(@, "stop")]

\* cluster.destroy()
Cluster_destroy(c) ==
    [c EXCEPT !.destroys = @ + 1, !.calls = Append(@, "destroy")]

(***************************************************************************)
(* _start_cluster(ClusterCls, cluster_kwargs, server_settings)             *)
(* The result holds the constructed cluster object, whether the call       *)
(* returned it (ok) or an exception left the function first, and whether   *)
(* atexit.register was reached.                                            *)
(***************************************************************************)
\* a slip: the caller's server_settings are dropped, the default {} is used
_start_cluster_drops_settings(via, server_settings, fail) ==
    LET c0 == TempCluster(via)
        c1 == Cluster_init(c0, fail # "init")
        c2 == IF fail = "init" THEN c1 ELSE Cluster_trust_local_connections(c1)
        c3 == IF fail \in {"init", "trust"} THEN c2
              ELSE Cluster_start(c2, "{}", fail # "start")
    IN  [cluster |-> c3, ok |-> fail = "none", registered |-> fail = "none"]

_start_cluster(via, server_settings, fail) ==
    LET c0 == TempCluster(via)
        c1 == Cluster_init(c0, fail # "init")
        c2 == IF fail = "init" THEN c1 ELSE Cluster_trust_local_connections(c1)
        c3 == IF fail \in {"init", "trust"} THEN c2
              ELSE Cluster_start(c2, server_settings, fail # "start")
    IN  [cluster |-> c3, ok |-> fail = "none", registered |-> fail = "none"]

(***************************************************************************)
(* _start_default_cluster(server_settings)                                 *)
(***************************************************************************)
\* a slip: PGHOST is not consulted, a cluster is always created and started
CreateDefault_ignoring_pghost(server_settings, fail) ==
    LET r == _start_cluster("default", server_settings, fail)
        id == Len(clusters) + 1
    IN  /\ clusters' = Append(clusters, r.cluster)
        /\ default_cluster' = IF r.ok THEN id ELSE default_cluster
        /\ atexit_handlers' = IF r.registered
                              THEN Append(atexit_handlers, id)
                              ELSE atexit_handlers
        /\ callLog' = Append(callLog,
               [settings |-> server_settings,
                ret |-> IF r.ok THEN id ELSE 0, made |-> id])

\* the provider's effect when no singleton is bound yet
CreateDefault(server_settings, fail) ==
    IF pghost
    THEN /\ fail = "none"
         /\ clusters' = Append(clusters, RunningCluster)
         /\ default_cluster' = Len(clusters) + 1
         /\ atexit_handlers' = atexit_handlers
         /\ callLog' = Append(callLog,
                [settings |-> server_settings, ret |-> Len(clusters) + 1,
                 made |-> Len(clusters) + 1])
    ELSE LET r == _start_cluster("default", server_settings, fail)
             id == Len(clusters) + 1
         IN  /\ clusters' = Append(clusters, r.cluster)
             /\ default_cluster' = IF r.ok THEN id ELSE default_cluster
             /\ atexit_handlers' = IF r.registered
                                   THEN Append(atexit_handlers, id)
                                   ELSE atexit_handlers
             /\ callLog' = Append(callLog,
                    [settings |-> server_settings,
                     ret |-> IF r.ok THEN id ELSE 0, made |-> id])

\* a slip: the `if _default_cluster is None` test is missing
_start_default_cluster_no_check(server_settings, fail) ==
    /\ phase = "running"
    /\ Len(callLog) < MaxCalls
    /\ CreateDefault(server_settings, fail)
    /\ UNCHANGED <<pghost, explicitCalls, phase>>
    /\ UNCHANGED notClusterVars

_start_default_cluster(server_settings, fail) ==
    /\ phase = "running"
    /\ Len(callLog) < MaxCalls
    /\ IF default_cluster = 0
       THEN CreateDefault(server_settings, fail)
       ELSE /\ fail = "none"
            /\ callLog' = Append(callLog,
                   [settings |-> server_settings, ret |-> default_cluster,
                    made |-> 0])
            /\ UNCHANGED <<default_cluster, clusters, atexit_handlers>>
    /\ UNCHANGED <<pghost, explicitCalls, phase>>
    /\ UNCHANGED notClusterVars

\* ClusterTestCase.start_cluster(ClusterCls, cluster_kwargs, server_settings)
ClusterTestCase_start_cluster(server_settings, fail) ==
    /\ phase = "running"
    /\ explicitCalls < MaxExplicit
    /\ LET r == _start_cluster("explicit", server_settings, fail)
           id == Len(clusters) + 1
       IN  /\ clusters' = Append(clusters, r.cluster)
           /\ atexit_handlers' = IF r.registered
                                 THEN Append(atexit_handlers, id)
                                 ELSE atexit_handlers
    /\ explicitCalls' = explicitCalls + 1
    /\ UNCHANGED <<pghost, default_cluster, callLog, phase>>
    /\ UNCHANGED notClusterVars

\* a slip: the status is not consulted, stop is always called
_shutdown_cluster_always_stops(c) == Cluster_destroy(Cluster_stop(c))

\* _shutdown_cluster(cluster)
_shutdown_cluster(c) ==
    LET c1 == IF Cluster_get_status(c) = "running" THEN Cluster_stop(c) ELSE c
    IN  Cluster_destroy(c1)

\* the interpreter starts to exit: the atexit handlers will now run
ProcessExit ==
    /\ phase = "running"
    /\ phase' = "exiting"
    /\ UNCHANGED <<pghost, default_cluster, clusters, atexit_handlers,
                   callLog, explicitCalls>>
    /\ UNCHANGED notClusterVars

\* atexit runs the registered handlers, last registered first
RunAtexitHandler ==
    /\ phase = "exiting"
    /\ IF atexit_handlers = <<>>
       THEN /\ phase' = "exited"
            /\ UNCHANGED <<clusters, atexit_handlers>>
       ELSE LET id == atexit_handlers[Len(atexit_handlers)]
            IN  /\ clusters' = [clusters EXCEPT ![id] = _shutdown_cluster(@)]
                /\ atexit_handlers' =
                       SubSeq(atexit_handlers, 1, Len(atexit_handlers) - 1)
                /\ phase' = phase
    /\ UNCHANGED <<pghost, default_cluster, callLog, explicitCalls>>
    /\ UNCHANGED notClusterVars

\* the fixture before any test class was set up
NoCluster ==
    /\ default_cluster = 0
    /\ clusters = <<>>
    /\ atexit_handlers = <<>>
    /\ callLog = <<>>
    /\ explicitCalls = 0
    /\ phase = "running"

InitCluster ==
    /\ pghost \in BOOLEAN
    /\ NoCluster

NextCluster ==
    \/ \E s \in Settings, f \in Failures : _start_default_cluster(s, f)
    \/ \E s \in Settings, f \in Failures : ClusterTestCase_start_cluster(s, f)
    \/ ProcessExit
    \/ RunAtexitHandler

(***************************************************************************)
(* Properties of the singleton cluster provider (checked under             *)
(* SpecCluster).                                                           *)
(***************************************************************************)
\* the clusters constructed by _start_default_cluster
DefaultMade == {id \in DOMAIN clusters : clusters[id].via = "default"}

Returned == {i \in DOMAIN callLog : callLog[i].ret # 0}

C14_ExternalNeverManaged ==
    /\ (pghost /\ default_cluster # 0) =>
          clusters[default_cluster].cls = "RunningCluster"
    /\ \A i \in DOMAIN callLog :
          (pghost /\ callLog[i].made # 0) =>
             clusters[callLog[i].made].cls = "RunningCluster"
    /\ \A id \in DOMAIN clusters :
          clusters[id].cls = "RunningCluster" =>
             /\ clusters[id].calls = <<>>
             /\ clusters[id].inits = 0 /\ clusters[id].started = 0
             /\ clusters[id].stops = 0 /\ clusters[id].destroys = 0
             /\ clusters[id].status = "running"
             /\ \A k \in DOMAIN atexit_handlers : atexit_handlers[k] # id

\* the process has exited: the handler of an explicitly started cluster ran,
\* the external singleton was left alone
C14_Witness ==
    /\ pghost
    /\ phase = "exited"
    /\ default_cluster # 0
    /\ clusters[default_cluster].cls = "RunningCluster"
    /\ clusters[default_cluster].calls = <<>>
    /\ \E id \in DOMAIN clusters :
          clusters[id].via = "explicit" /\ clusters[id].destroys = 1

\* C15, as claimed: every owned cluster the harness creates has its teardown
\* registered to run at process exit, so that on every path, also when init
\* or start fails after the cluster object was created, the cluster has been
\* destroyed exactly once when the process has exited.
C15_Original ==
    phase = "exited" =>
        \A id \in DOMAIN clusters :
            clusters[id].cls = "TempCluster" => clusters[id].destroys = 1

(***************************************************************************)
(* The deadline wrapper: TestCaseMeta.__new__.wrapper, lines 76-86.        *)
(*                                                                         *)
(* The test body is an input: a coroutine that goes through a script of    *)
(* steps and then returns or raises.  A step either awaits                 *)
(* asyncio.sleep(k), which suspends the body and lets the loop run, or     *)
(* computes for k time-units without yielding to the loop.                 *)
(* asyncio.wait_for and loop.run_until_complete are modelled by what the   *)
(* event loop does with them: callbacks run in batches (one batch per loop *)
(* iteration), timers that are due join the batch behind the callbacks     *)
(* scheduled with call_soon.                                               *)
(***************************************************************************)
\* the value None, and a number, as values of __timeout__
NoneV == [tag |-> "None", n |-> 0]

Num(k) == [tag |-> "num", n |-> k]

\* Python truthiness of a timeout value: None and 0 are falsy
Truthy(v) == v.tag = "num" /\ v.n # 0

\* getattr(__meth__, '__timeout__', 60.0)
DefaultTimeout == 60

Durations == (1..MaxDur) \cup {DefaultTimeout - 1, DefaultTimeout + 1}

Steps == [op : {"sleep", "block"}, k : Durations]

RECURSIVE SeqsUpTo(_, _)
SeqsUpTo(S, n) ==
    IF n = 0 THEN {<<>>}
    ELSE LET shorter == SeqsUpTo(S, n - 1)
         IN  shorter \cup {Append(q, x) : q \in shorter, x \in S}

Scripts == SeqsUpTo(Steps, MaxSteps)

Endings == {"return", "ValueError", "TimeoutError"}

TimeoutValues == {NoneV} \cup {Num(k) : k \in 0..MaxTimeout}

\* an undecorated coroutine function: no __timeout__ attribute
CoroutineFunction(script, ending) ==
    [has_timeout |-> FALSE, timeout_attr |-> NoneV,
     script |-> script, ending |-> ending]

\* with_timeout(timeout)(func): func.__timeout__ = timeout
with_timeout(func, t) ==
    [func EXCEPT !.has_timeout = TRUE, !.timeout_attr = t]

TestMethods ==
    {CoroutineFunction(s, e) : s \in Scripts, e \in Endings}
    \cup {with_timeout(CoroutineFunction(s, e), t) :
              s \in Scripts, e \in Endings, t \in TimeoutValues}

\* a slip: a method without __timeout__ runs with no timeout
getattr_timeout_default_none(m) ==
    IF m.has_timeout THEN m.timeout_attr ELSE NoneV

\* line 78: timeout = getattr(__meth__, '__timeout__', 60.0)
getattr_timeout(m) ==
    IF m.has_timeout THEN m.timeout_attr ELSE Num(DefaultTimeout)

NoTask == [state |-> "none", pos |-> 0, result |-> "none", doneAt |-> 0]

NoOutcome == [kind |-> "none", exc |-> "none", after |-> NoneV]

NoHist == [fired |-> FALSE, firedWhileSuspended |-> FALSE,
           enforced |-> FALSE, deadline |-> 0]

\* the position after the steps from pos on that compute without yielding
RECURSIVE AfterBlocks(_, _)
AfterBlocks(script, pos) ==
    IF pos <= Len(script) /\ script[pos].op = "block"
    THEN AfterBlocks(script, pos + 1)
    ELSE pos

\* the time the steps pos..to-1 (all computing) take
RECURSIVE BlockTime(_, _, _)
BlockTime(script, pos, to) ==
    IF pos >= to THEN 0 ELSE script[pos].k + BlockTime(script, pos + 1, to)

\* lines 77-82 up to the start of run_until_complete: the coroutine object is
\* made, wrapped in wait_for when the timeout is truthy, and the main task's
\* first step is scheduled
wrapper(m) ==
    /\ wpc' = "running"
    /\ meth' = m
    /\ timeout' = getattr_timeout(m)
    /\ IF Truthy(getattr_timeout(m))
       THEN /\ outer' = [NoTask EXCEPT !.state = "pending"]
            /\ ready' = <<"outer_step">>
       ELSE /\ outer' = NoTask
            /\ ready' = <<"body_step">>
    /\ body' = [NoTask EXCEPT !.state = "pending", !.pos = 1]
    /\ hist' = [NoHist EXCEPT !.enforced = Truthy(getattr_timeout(m))]
    /\ UNCHANGED <<now, waiter, batch, timers, stopping, outcome>>
    /\ UNCHANGED notRunVars

\* the test runner calls a wrapped test method
Invoke ==
    /\ wpc = "idle"
    /\ \E m \in TestMethods : wrapper(m)

\* the due timers in the order the loop runs them: by time, ties either way
DueOrders(due) ==
    {q \in SeqsUpTo(due, Cardinality(due)) :
        /\ Len(q) = Cardinality(due)
        /\ \A i, j \in 1..Len(q) : i < j => q[i] # q[j] /\ q[i].when <= q[j].when}

\* BaseEventLoop._run_once, first half: with nothing ready the loop sleeps
\* until the earliest timer; the timers then due join the ready callbacks
RunOnce ==
    /\ wpc = "running"
    /\ batch = <<>>
    /\ ~stopping
    /\ ready # <<>> \/ timers # {}
    /\ LET t == IF ready = <<>>
                THEN LET first == CHOOSE x \in timers :
                                      \A y \in timers : x.when <= y.when
                     IN  IF first.when > now THEN first.when ELSE now
                ELSE now
           due == {x \in timers : x.when <= t}
       IN  /\ now' = t
           /\ \E q \in DueOrders(due) :
                  batch' = ready \o [i \in 1..Len(q) |-> q[i].cb]
           /\ timers' = timers \ due
    /\ ready' = <<>>
    /\ UNCHANGED <<wpc, meth, timeout, outer, body, waiter, stopping,
                   outcome, hist>>
    /\ UNCHANGED notRunVars

\* wait_for's first step: the waiter, the deadline timer, the body's task
OuterStart ==
    /\ outer.state = "pending"
    /\ outer' = [outer EXCEPT !.state = "waiting"]
    /\ waiter' = "pending"
    /\ timers' = timers \cup {[when |-> now + timeout.n, cb |-> "release_timeout"]}
    /\ ready' = Append(ready, "body_step")
    /\ hist' = [hist EXCEPT !.deadline = now + timeout.n]
    /\ UNCHANGED <<now, body, stopping>>

\* a slip: wait_for decides by the deadline timer, not by fut.done()
OuterResumeByTimer ==
    /\ outer.state = "waiting"
    /\ IF body.state = "done" /\ ~hist.fired
       THEN /\ outer' = [outer EXCEPT !.state = "done", !.result = body.result]
            /\ body' = body
       ELSE /\ outer' = [outer EXCEPT !.state = "done",
                                      !.result = "DeadlineTimeoutError"]
            /\ body' = IF body.state = "done" THEN body
                       ELSE [body EXCEPT !.state = "cancelled"]
    /\ timers' = {x \in timers : x.cb \notin {"release_timeout", "sleep_wake"}}
    /\ ready' = Append(ready, "stop")
    /\ UNCHANGED <<now, waiter, stopping, hist>>

\* wait_for resumes after its waiter was released: the body's result when the
\* body is done, else the body is cancelled and TimeoutError raised; the
\* deadline timer is cancelled in either case
OuterResume ==
    /\ outer.state = "waiting"
    /\ IF body.state = "done"
       THEN /\ outer' = [outer EXCEPT !.state = "done", !.result = body.result]
            /\ body' = body
            /\ timers' = {x \in timers : x.cb # "release_timeout"}
       ELSE /\ outer' = [outer EXCEPT !.state = "done",
                                      !.result = "DeadlineTimeoutError"]
            /\ body' = [body EXCEPT !.state = "cancelled"]
            /\ timers' = {x \in timers :
                              x.cb \notin {"release_timeout", "sleep_wake"}}
    /\ ready' = Append(ready, "stop")
    /\ UNCHANGED <<now, waiter, stopping, hist>>

\* one step of the body's task: it computes through the steps that do not
\* yield, then either suspends in asyncio.sleep(k) or finishes
BodyStep ==
    IF body.state \in {"pending", "ready"}
    THEN LET to == AfterBlocks(meth.script, body.pos)
             t  == now + BlockTime(meth.script, body.pos, to)
         IN  /\ now' = t
             /\ IF to <= Len(meth.script)
                THEN /\ body' = [body EXCEPT !.state = "sleeping", !.pos = to + 1]
                     /\ timers' = timers \cup
                            {[when |-> t + meth.script[to].k, cb |-> "sleep_wake"]}
                     /\ ready' = ready
                ELSE /\ body' = [body EXCEPT !.state = "done", !.pos = to,
                                             !.result = meth.ending,
                                             !.doneAt = t]
                     /\ timers' = timers
                     /\ ready' = Append(ready,
                            IF outer.state = "none" THEN "stop"
                            ELSE "release_done")
             /\ UNCHANGED <<outer, waiter, stopping, hist>>
    ELSE UNCHANGED <<now, outer, body, waiter, ready, timers, stopping, hist>>

\* _release_waiter(waiter), called by the deadline timer (byTimer) or as the
\* body task's done callback
ReleaseWaiter(byTimer) ==
    /\ IF waiter = "pending"
       THEN /\ waiter' = "done"
            /\ ready' = Append(ready, "outer_step")
       ELSE UNCHANGED <<waiter, ready>>
    /\ hist' = IF byTimer
               THEN [hist EXCEPT !.fired = TRUE,
                                 !.firedWhileSuspended = body.state = "sleeping"]
               ELSE hist
    /\ UNCHANGED <<now, outer, body, timers, stopping>>

\* the sleep's timer sets the sleep future's result: the body's task is
\* scheduled to resume
SleepWake ==
    /\ IF body.state = "sleeping"
       THEN /\ body' = [body EXCEPT !.state = "ready"]
            /\ ready' = Append(ready, "body_step")
       ELSE UNCHANGED <<body, ready>>
    /\ UNCHANGED <<now, outer, waiter, timers, stopping, hist>>

\* run_until_complete's done callback: loop.stop()
StopLoop ==
    /\ stopping' = TRUE
    /\ UNCHANGED <<now, outer, body, waiter, ready, timers, hist>>

\* BaseEventLoop._run_once, second half: the next callback of the batch
RunCallback ==
    /\ wpc = "running"
    /\ batch # <<>>
    /\ batch' = Tail(batch)
    /\ LET cb == Head(batch)
       IN  CASE cb = "outer_step" ->
                    IF outer.state = "pending" THEN OuterStart ELSE OuterResume
             [] cb = "body_step" -> BodyStep
             [] cb = "release_timeout" -> ReleaseWaiter(TRUE)
             [] cb = "release_done" -> ReleaseWaiter(FALSE)
             [] cb = "sleep_wake" -> SleepWake
             [] cb = "stop" -> StopLoop
    /\ UNCHANGED <<wpc, meth, timeout, outcome>>
    /\ UNCHANGED notRunVars

\* the result of the future run_until_complete ran
MainResult == IF outer.state = "none" THEN body.result ELSE outer.result

\* a slip: the except clause is missing, asyncio.TimeoutError propagates
WrapperFinishNoExcept ==
    /\ wpc = "running"
    /\ stopping
    /\ batch = <<>>
    /\ wpc' = "done"
    /\ outcome' =
          IF MainResult = "return"
          THEN [kind |-> "returned", exc |-> "none", after |-> NoneV]
          ELSE [kind |-> "raised", exc |-> "TimeoutError", after |-> NoneV]
    /\ UNCHANGED <<meth, timeout, now, outer, body, waiter, batch, ready,
                   timers, stopping, hist>>
    /\ UNCHANGED notRunVars

\* lines 81-86: run_until_complete returns or raises the main task's result, and every
\* asyncio.TimeoutError becomes the failure 'test timed out after {timeout}'
WrapperFinish ==
    /\ wpc = "running"
    /\ stopping
    /\ batch = <<>>
    /\ wpc' = "done"
    /\ outcome' =
          IF MainResult = "return"
          THEN [kind |-> "returned", exc |-> "none", after |-> NoneV]
          ELSE IF MainResult \in {"TimeoutError", "DeadlineTimeoutError"}
          THEN [kind |-> "failed", exc |-> "failureException", after |-> timeout]
          ELSE [kind |-> "raised", exc |-> MainResult, after |-> NoneV]
    /\ UNCHANGED <<meth, timeout, now, outer, body, waiter, batch, ready,
                   timers, stopping, hist>>
    /\ UNCHANGED notRunVars

\* no test method is being run
NoRun ==
    /\ wpc = "idle"
    /\ meth = CoroutineFunction(<<>>, "return")
    /\ timeout = NoneV
    /\ now = 0
    /\ outer = NoTask
    /\ body = NoTask
    /\ waiter = "none"
    /\ batch = <<>>
    /\ ready = <<>>
    /\ timers = {}
    /\ stopping = FALSE
    /\ outcome = NoOutcome
    /\ hist = NoHist

InitRun == NoRun

NextRun ==
    \/ Invoke
    \/ RunOnce
    \/ RunCallback
    \/ WrapperFinish

(***************************************************************************)
(* Properties of the deadline wrapper (checked under SpecRun).             *)
(***************************************************************************)
Finished == wpc = "done"

BodyReturned == body.state = "done" /\ body.result = "return"

TimedOutReport ==
    outcome = [kind |-> "failed", exc |-> "failureException", after |-> timeout]

\* C3, as claimed: with a truthy deadline d, a test coroutine that has not
\* completed when d time-units have elapsed is cancelled and the wrapper
\* raises 'test timed out after d seconds'; it never returns success.
C3_Original ==
    (Finished /\ Truthy(timeout)
       /\ ~(body.state = "done" /\ body.doneAt <= hist.deadline))
    => (TimedOutReport /\ body.state = "cancelled")

\* C3, amended: with a truthy deadline d, when the deadline timer fires
\* while the test coroutine is suspended at an await and not completed, the
\* coroutine is cancelled and the wrapper raises 'test timed out after d
\* seconds'; it never returns success.
C3_DeadlineWhileSuspended ==
    (Finished /\ Truthy(timeout) /\ hist.firedWhileSuspended)
    => (TimedOutReport /\ body.state = "cancelled" /\ now >= hist.deadline)

C3_Witness ==
    /\ Finished /\ Truthy(timeout) /\ hist.firedWhileSuspended
    /\ TimedOutReport /\ body.state = "cancelled"

\* C4: a test coroutine that completes no later than its deadline is
\* reported as completed, in every order of the deadline timer and the
\* coroutine's last step; a run reported as timed out by the deadline is one
\* whose coroutine did not complete, so never both.
C4_CompletionWinsRace ==
    Finished =>
      /\ (BodyReturned /\ (Truthy(timeout) => body.doneAt <= hist.deadline))
            => outcome.kind = "returned"
      /\ outer.result = "DeadlineTimeoutError"
            => (body.state = "cancelled" /\ outcome.kind = "failed")
      /\ outcome.kind \in {"returned", "failed", "raised"}

\* the race itself: the deadline timer fired in the very iteration in which
\* the coroutine finished, and the run is reported as completed
C4_Witness ==
    /\ Finished /\ hist.fired /\ BodyReturned
    /\ body.doneAt = hist.deadline
    /\ outcome.kind = "returned"

\* C5: the deadline is the method's __timeout__ when it has one and 60.0
\* otherwise; a method without one is timed out after 60.0; only an explicit
\* falsy __timeout__ (0 or None) runs the coroutine without wait_for.
C5_DeadlineSelection ==
    wpc # "idle" =>
      /\ (outer.state = "none")
            <=> (meth.has_timeout /\ meth.timeout_attr \in {NoneV, Num(0)})
      /\ outer.state \in {"waiting", "done"}
            => hist.deadline = (IF meth.has_timeout THEN meth.timeout_attr.n
                                ELSE 60)
      /\ (Finished /\ ~meth.has_timeout /\ hist.firedWhileSuspended)
            => outcome = [kind |-> "failed", exc |-> "failureException",
                          after |-> Num(60)]

C5_Witness ==
    /\ Finished /\ ~meth.has_timeout /\ hist.firedWhileSuspended
    /\ outcome.kind = "failed" /\ outcome.after = Num(60)
    /\ now = 60

\* C6, as claimed: an exception raised by the test body propagates unchanged
\* through the wrapper, and 'test timed out' is raised only when the
\* wrapper's own deadline has expired.
C6_Original ==
    Finished =>
      /\ (body.state = "done" /\ body.result # "return")
            => (outcome.kind = "raised" /\ outcome.exc = body.result)
      /\ outcome.kind = "failed"
            => (Truthy(timeout) /\ now >= hist.deadline)

(***************************************************************************)
(* TestCase.assertRunUnder(delta), lines 109-120.                          *)
(* The wrapped block is an input: it takes some time and then completes or *)
(* raises.                                                                 *)
(***************************************************************************)
BlockExceptions == {"ValueError", "KeyError"}

\* line 111: st = time.monotonic(); the block starts
assertRunUnder_enter(d) ==
    /\ rpc = "idle"
    /\ rpc' = "in_block"
    /\ delta' = d
    /\ st' = mono
    /\ UNCHANGED <<mono, elapsed, blockExc, propagated>>
    /\ UNCHANGED notTimingVars

\* time.monotonic() advances
MonotonicTick ==
    /\ rpc # "exited"
    /\ mono < MaxClock
    /\ mono' = mono + 1
    /\ UNCHANGED <<rpc, delta, st, elapsed, blockExc, propagated>>
    /\ UNCHANGED notTimingVars

\* lines 114-120: the block ended, returning (exc = "none") or raising exc;
\* the finally clause measures, and its raise replaces the exception in flight
assertRunUnder_exit(exc) ==
    /\ rpc = "in_block"
    /\ rpc' = "exited"
    /\ blockExc' = exc
    /\ elapsed' = mono - st
    /\ propagated' = IF mono - st > delta THEN "AssertionError" ELSE exc
    /\ UNCHANGED <<mono, delta, st>>
    /\ UNCHANGED notTimingVars

\* no assertRunUnder block was entered
NoTiming ==
    /\ rpc = "idle"
    /\ mono = 0
    /\ delta = 0
    /\ st = 0
    /\ elapsed = 0
    /\ blockExc = "none"
    /\ propagated = "none"

NextTiming ==
    \/ \E d \in 0..MaxDelta : assertRunUnder_enter(d)
    \/ MonotonicTick
    \/ \E exc \in BlockExceptions \cup {"none"} : assertRunUnder_exit(exc)

\* C7, as claimed: when the block wrapped by assertRunUnder(delta) raises,
\* that exception, and not a timing AssertionError, propagates out of
\* assertRunUnder, whatever the elapsed time.
C7_Original ==
    (rpc = "exited" /\ blockExc # "none") => propagated = blockExc

(***************************************************************************)
(* TestCase.assertLoopErrorHandlerCalled(msg_re), lines 122-144.           *)
(* The loop's exception handler is None (0), a handler some test installed *)
(* itself (CustomHandler), or the capturing closure `handler` of a use of  *)
(* assertLoopErrorHandlerCalled (a positive number, one per entry).        *)
(* Messages and patterns are strings over a two-letter alphabet; a pattern *)
(* is a literal, so that re.search is a search for a substring.            *)
(***************************************************************************)
CustomHandler == 0 - 1

Messages == {<<>>, <<"a">>, <<"a", "b">>}

Patterns == {<<>>, <<"b">>}

\* the context dictionaries given to loop.call_exception_handler: one
\* without a 'message' key, the others with one
Contexts ==
    {[has_message |-> FALSE, message |-> <<>>]}
    \cup {[has_message |-> TRUE, message |-> m] : m \in Messages}

\* the pattern matches the string at offset i (1-based)
MatchAt(p, m, i) ==
    /\ i + Len(p) - 1 <= Len(m)
    /\ \A k \in 1..Len(p) : m[i + k - 1] = p[k]

\* a slip: re.match, which only looks at the start of the string
re_match(p, m) == MatchAt(p, m, 1)

\* re.search(msg_re, msg): the first offset at which the pattern matches
re_search(p, m) == \E i \in 1..(Len(m) + 1) : MatchAt(p, m, i)

\* lines 134-137: the loop over the captured contexts, from the i-th on
RECURSIVE ScanContexts(_, _, _)
ScanContexts(contexts, msg_re, i) ==
    IF i > Len(contexts) THEN FALSE
    ELSE LET ctx == contexts[i]
             truthy == ctx.has_message /\ ctx.message # <<>>
         IN  IF truthy /\ re_search(msg_re, ctx.message) THEN TRUE
             ELSE ScanContexts(contexts, msg_re, i + 1)

\* a slip: the handler is reset to the default instead of the saved one
finally_restore_default(frame) == 0

\* lines 143-144: self.loop.set_exception_handler(old_handler)
finally_restore(frame) == frame.old_handler

NoExit == [kind |-> "none", result |-> "none", depth |-> 0, pre |-> 0,
           at_exit |-> 0, post |-> 0, contexts |-> <<>>, msg_re |-> <<>>]

NoFrames ==
    /\ frames = <<>>
    /\ entries = 0
    /\ captures = 0
    /\ lastExit = NoExit

\* lines 124-132: the capturing handler is installed, the block starts
assertLoopErrorHandlerCalled_enter(msg_re) ==
    /\ entries < MaxEntries
    /\ entries' = entries + 1
    /\ frames' = Append(frames,
           [handler |-> entries + 1, old_handler |-> loop_handler,
            contexts |-> <<>>, msg_re |-> msg_re, pre |-> loop_handler])
    /\ loop_handler' = entries + 1
    /\ UNCHANGED <<captures, lastExit>>
    /\ UNCHANGED notHandlerVars

\* loop.call_exception_handler(ctx) while a block runs: the installed handler
\* is called; lines 126-127 when it is a capturing one
call_exception_handler(ctx) ==
    /\ frames # <<>>
    /\ captures < MaxCaptures
    /\ captures' = captures + 1
    /\ frames' = [k \in DOMAIN frames |->
                     IF frames[k].handler = loop_handler
                     THEN [frames[k] EXCEPT !.contexts = Append(@, ctx)]
                     ELSE frames[k]]
    /\ UNCHANGED <<loop_handler, entries, lastExit>>
    /\ UNCHANGED notHandlerVars

\* test code calls loop.set_exception_handler itself
set_exception_handler(h) ==
    /\ frames # <<>>
    /\ loop_handler # h
    /\ loop_handler' = h
    /\ UNCHANGED <<frames, entries, captures, lastExit>>
    /\ UNCHANGED notHandlerVars

\* lines 132-144: the innermost block ended, returning (exc = "none") or
\* raising exc; the contexts are scanned only when it returned
assertLoopErrorHandlerCalled_exit(exc) ==
    /\ frames # <<>>
    /\ LET f == frames[Len(frames)]
           restored == finally_restore(f)
       IN  /\ loop_handler' = restored
           /\ lastExit' =
                 [kind |-> IF exc = "none" THEN "completed" ELSE "raised",
                  result |-> IF exc # "none" THEN exc
                             ELSE IF ScanContexts(f.contexts, f.msg_re, 1)
                             THEN "ok" ELSE "AssertionError",
                  depth |-> Len(frames), pre |-> f.pre,
                  at_exit |-> loop_handler, post |-> restored,
                  contexts |-> f.contexts, msg_re |-> f.msg_re]
    /\ frames' = SubSeq(frames, 1, Len(frames) - 1)
    /\ UNCHANGED <<entries, captures>>
    /\ UNCHANGED notHandlerVars

\* no block entered; the loop has its default handler
NoHandler ==
    /\ loop_handler = 0
    /\ NoFrames

\* no block entered; the loop has the default handler or one a test installed
InitHandler ==
    /\ loop_handler \in {0, CustomHandler}
    /\ NoFrames

NextHandler ==
    \/ \E p \in Patterns : assertLoopErrorHandlerCalled_enter(p)
    \/ \E ctx \in Contexts : call_exception_handler(ctx)
    \/ set_exception_handler(CustomHandler)
    \/ \E exc \in {"none", "ValueError"} :
           assertLoopErrorHandlerCalled_exit(exc)

(***************************************************************************)
(* Properties of assertLoopErrorHandlerCalled (checked under SpecHandler). *)
(***************************************************************************)
\* C8: on every exit path of assertLoopErrorHandlerCalled (a message
\* matched, none matched, the block raised) the loop's exception handler
\* after the exit is the handler that was installed before the entry, also
\* for nested uses, which restore innermost first.
C8_HandlerRestored ==
    /\ lastExit.kind # "none" => lastExit.post = lastExit.pre
    /\ \A k \in DOMAIN frames :
          frames[k].old_handler =
              IF k = 1 THEN frames[k].pre
              ELSE IF frames[k].pre > 0 THEN frames[k - 1].handler
              ELSE frames[k].pre

\* an inner use left by an exception, after its block had installed another
\* handler: the outer use's capturing handler is back
C8_Witness ==
    /\ lastExit.kind = "raised"
    /\ lastExit.depth = 2
    /\ lastExit.at_exit = CustomHandler
    /\ lastExit.pre = frames[1].handler
    /\ loop_handler = frames[1].handler

\* the string p occurs in the string m
Occurs(p, m) ==
    \E i \in 0..Len(m) : \E j \in i..Len(m) : SubSeq(m, i + 1, j) = p

\* C9: when the block completes without raising,
\* assertLoopErrorHandlerCalled(pattern) succeeds if and only if some
\* captured context has a non-empty 'message' in which the pattern occurs;
\* otherwise it raises AssertionError.  A context without a message never
\* counts.
C9_SucceedsIffMessageFound ==
    lastExit.kind = "completed" =>
      /\ lastExit.result \in {"ok", "AssertionError"}
      /\ (lastExit.result = "ok") <=>
            \E k \in DOMAIN lastExit.contexts :
               /\ lastExit.contexts[k].has_message
               /\ lastExit.contexts[k].message # <<>>
               /\ Occurs(lastExit.msg_re, lastExit.contexts[k].message)

\* success by a match inside the second captured message, the first context
\* having no message at all
C9_Witness ==
    /\ lastExit.kind = "completed"
    /\ lastExit.result = "ok"
    /\ Len(lastExit.contexts) = 2
    /\ ~lastExit.contexts[1].has_message
    /\ lastExit.contexts[2].message = <<"a", "b">>
    /\ lastExit.msg_re = <<"b">>

(***************************************************************************)
(* TestCaseMeta: _iter_methods and __new__, lines 49-89.                   *)
(*                                                                         *)
(* A class is a record of its bases, its method resolution order, the      *)
(* namespace its body declared (decl) and the namespace it was created     *)
(* with (ns).  Class 1 is TestCase, whose metaclass is TestCaseMeta; a     *)
(* class with a base whose metaclass is TestCaseMeta is constructed by     *)
(* TestCaseMeta too, any other class (a mix-in) by plain `type`.           *)
(* An attribute value is a coroutine function (async def), a plain         *)
(* function, or a wrapper made by __new__; `owner` says which class body   *)
(* declared the function, and for a wrapper which class body declared the  *)
(* coroutine function it closes over (__meth__); `layers` counts the        *)
(* wrappers around that coroutine function, each with its own deadline.    *)
(***************************************************************************)
\* attribute names, as <<prefix, rest of the name>>
Names == {<<"test_", "a">>, <<"util_", "a">>}

\* dir() lists names in sorted order
SortedNames == << <<"test_", "a">>, <<"util_", "a">> >>

\* methname.startswith('test_')
startswith_test_(methname) == methname[1] = "test_"

Absent == [kind |-> "absent", owner |-> 0, layers |-> 0]

\* what a class body can declare under a name
Declared(kind, c) == IF kind = "absent" THEN Absent
                     ELSE [kind |-> kind, owner |-> c, layers |-> 0]

\* a slip: any callable found under the name counts, a wrapper included
iscoroutinefunction_or_wrapper(v) == v.kind \in {"coro", "wrapper"}

\* inspect.iscoroutinefunction(meth)
iscoroutinefunction(v) == v.kind = "coro"

\* lines 75-87: the wrapper closing over meth
wrapper_of(m) ==
    [kind |-> "wrapper", owner |-> m.owner, layers |-> m.layers + 1]

\* the sequence q without the element x
RECURSIVE Without(_, _)
Without(q, x) ==
    IF q = <<>> THEN <<>>
    ELSE IF Head(q) = x THEN Without(Tail(q), x)
    ELSE <<Head(q)>> \o Without(Tail(q), x)

InTail(x, q) == \E i \in 2..Len(q) : q[i] = x

\* the C3 merge of Python's method resolution order; <<0>> ends the result
\* when the orders are inconsistent (the class statement raises TypeError)
RECURSIVE C3Merge(_)
C3Merge(seqs) ==
    LET ne == SelectSeq(seqs, LAMBDA q : q # <<>>)
    IN  IF ne = <<>> THEN <<>>
        ELSE LET cands == {i \in DOMAIN ne :
                              \A j \in DOMAIN ne : ~InTail(ne[i][1], ne[j])}
             IN  IF cands = {} THEN <<0>>
                 ELSE LET i == CHOOSE x \in cands : \A y \in cands : x <= y
                          h == ne[i][1]
                      IN  <<h>> \o C3Merge([j \in DOMAIN ne |-> Without(ne[j], h)])

\* the __mro__ of a new class with index c and the given bases
MroOf(c, bases) ==
    <<c>> \o C3Merge([i \in DOMAIN bases |-> classes[bases[i]].mro]
                     \o <<bases>>)

\* getattr(base, methname): the first class of base's __mro__ that has it
RECURSIVE Lookup(_, _, _)
Lookup(mro, methname, i) ==
    IF i > Len(mro) THEN Absent
    ELSE IF classes[mro[i]].ns[methname] # Absent
    THEN classes[mro[i]].ns[methname]
    ELSE Lookup(mro, methname, i + 1)

getattr(base, methname) == Lookup(classes[base].mro, methname, 1)

\* methname in dir(base)
InDir(base, methname) == getattr(base, methname) # Absent

\* lines 54-62 with line 87: the names of one base, in dir() order
RECURSIVE WrapFromBase(_, _, _)
WrapFromBase(ns, base, i) ==
    IF i > Len(SortedNames) THEN ns
    ELSE LET methname == SortedNames[i]
             take == /\ InDir(base, methname)
                     /\ startswith_test_(methname)
                     /\ iscoroutinefunction(getattr(base, methname))
         IN  WrapFromBase(
                 IF take
                 THEN [ns EXCEPT ![methname] = wrapper_of(getattr(base, methname))]
                 ELSE ns,
                 base, i + 1)

\* lines 53-62 with line 87: the bases in order, from the i-th on
RECURSIVE WrapFromBases(_, _, _)
WrapFromBases(ns, bases, i) ==
    IF i > Len(bases) THEN ns
    ELSE WrapFromBases(WrapFromBase(ns, bases[i], 1), bases, i + 1)

\* lines 64-71 with line 87: the items of ns as they are when the generator
\* reaches them, that is after the bases' methods were stored into ns
WrapFromNamespace(ns) ==
    [methname \in Names |->
        IF startswith_test_(methname) /\ iscoroutinefunction(ns[methname])
        THEN wrapper_of(ns[methname])
        ELSE ns[methname]]

\* TestCaseMeta.__new__(mcls, name, bases, ns): the namespace handed to
\* type.__new__
TestCaseMeta_new(bases, ns) ==
    WrapFromNamespace(WrapFromBases(ns, bases, 1))

\* the sequences of distinct existing classes a class statement can name
BaseLists ==
    {q \in SeqsUpTo(DOMAIN classes, MaxBases) :
        \A i, j \in DOMAIN q : i # j => q[i] # q[j]}

DeclKinds(methname) ==
    IF startswith_test_(methname) THEN {"absent", "coro", "sync"}
    ELSE {"absent", "coro"}

\* a class statement: `class C(*bases): <decl>`
NewClass(bases, kinds) ==
    LET c == Len(classes) + 1
        mro == MroOf(c, bases)
        decl == [methname \in Names |-> Declared(kinds[methname], c)]
        meta == \E i \in DOMAIN bases : classes[bases[i]].meta
    IN  /\ \A i \in DOMAIN mro : mro[i] # 0
        /\ classes' = Append(classes,
               [bases |-> bases, mro |-> mro, meta |-> meta, decl |-> decl,
                ns |-> IF meta THEN TestCaseMeta_new(bases, decl) ELSE decl])
        /\ UNCHANGED notMetaVars

DefineClass ==
    /\ Len(classes) < 1 + MaxClasses
    /\ \E bases \in BaseLists :
          \E kinds \in [Names -> {"absent", "coro", "sync"}] :
             /\ \A methname \in Names : kinds[methname] \in DeclKinds(methname)
             /\ NewClass(bases, kinds)

\* class TestCase(unittest.TestCase, metaclass=TestCaseMeta), lines 92-144:
\* it declares no test method
NoNamespace == [methname \in Names |-> Absent]

TestCase ==
    [bases |-> <<>>, mro |-> <<1>>, meta |-> TRUE, decl |-> NoNamespace,
     ns |-> NoNamespace]

InitMeta == classes = <<TestCase>>

NextMeta == DefineClass

(***************************************************************************)
(* Properties of TestCaseMeta (checked under SpecMeta).                    *)
(***************************************************************************)
\* the classes TestCaseMeta.__new__ constructed from a class statement
Transformed == {c \in DOMAIN classes : c > 1 /\ classes[c].meta}

\* C10, as claimed: after construction by TestCaseMeta, for every name that
\* starts with 'test_' whose value is a coroutine function, declared in the
\* class's own namespace or found as an attribute of a base class, the class
\* namespace holds under that name a synchronous wrapper that runs that
\* coroutine (the class's own declaration when it has one).
C10_Original ==
    \A c \in Transformed : \A methname \in Names :
        startswith_test_(methname) =>
          /\ classes[c].decl[methname].kind = "coro"
                => classes[c].ns[methname] = wrapper_of(classes[c].decl[methname])
          /\ (classes[c].decl[methname].kind # "coro"
                /\ \E i \in DOMAIN classes[c].bases :
                      iscoroutinefunction(getattr(classes[c].bases[i], methname)))
                => /\ classes[c].ns[methname].kind = "wrapper"
                   /\ \E i \in DOMAIN classes[c].bases :
                         classes[c].ns[methname]
                            = wrapper_of(getattr(classes[c].bases[i], methname))

\* C11, as claimed: construction by TestCaseMeta leaves untouched every entry
\* of the class's own namespace that does not start with 'test_' or is not a
\* coroutine function: the class still holds the object its body declared,
\* whatever the bases are.
C11_Original ==
    \A c \in Transformed : \A methname \in Names :
        (/\ classes[c].decl[methname] # Absent
         /\ (~startswith_test_(methname)
                \/ ~iscoroutinefunction(classes[c].decl[methname])))
           => classes[c].ns[methname] = classes[c].decl[methname]

\* the test methods an instance of class c resolves, by name
Resolved(c) ==
    {getattr(c, methname) : methname \in {n \in Names : startswith_test_(n)}}

\* C19: a test coroutine is wrapped exactly once: along any chain of
\* subclassing from an already-transformed class an inherited synchronous
\* wrapper is never wrapped again, so one invocation of the test under any
\* subclass runs the original coroutine body once, under one deadline.
C19_NeverWrappedAgain ==
    \A c \in DOMAIN classes :
        /\ \A methname \in Names :
              classes[c].ns[methname].kind = "wrapper" =>
                 classes[c].ns[methname].layers = 1
        /\ \A v \in Resolved(c) : v.kind = "wrapper" => v.layers = 1
        /\ \A methname \in Names :
              \* a subclass that declares nothing under the name and whose
              \* bases expose no coroutine function under it keeps the
              \* inherited wrapper: its namespace gets no entry
              (/\ c \in Transformed
               /\ classes[c].decl[methname] = Absent
               /\ \A i \in DOMAIN classes[c].bases :
                     ~iscoroutinefunction(getattr(classes[c].bases[i], methname)))
                 => classes[c].ns[methname] = Absent

\* a class that inherits the wrapper of a transformed class: a subclass of a
\* subclass of TestCase resolves the wrapper made for its base
C19_Witness ==
    \E c \in Transformed : \E b \in Transformed : \E methname \in Names :
        /\ b # c
        /\ classes[c].bases = <<b>>
        /\ classes[b].decl[methname].kind = "coro"
        /\ classes[b].ns[methname] = wrapper_of(classes[b].decl[methname])
        /\ classes[c].ns[methname] = Absent
        /\ getattr(c, methname) = classes[b].ns[methname]
        /\ getattr(c, methname).layers = 1

\* C20, as claimed: when a class under construction declares a 'test_'
\* method in its own namespace and one or more of its bases also expose a
\* coroutine function under that name, the callable stored under the name
\* runs the class's own declaration, not a base class's coroutine.
C20_Original ==
    \A c \in Transformed : \A methname \in Names :
        (/\ startswith_test_(methname)
         /\ classes[c].decl[methname] # Absent
         /\ \E i \in DOMAIN classes[c].bases :
               iscoroutinefunction(getattr(classes[c].bases[i], methname)))
           => classes[c].ns[methname].owner = c

(***************************************************************************)
(* ProxiedClusterTestCase, lines 236-277, with the hooks it inherits from  *)
(* ClusterTestCase (lines 200-233) and TestCase (lines 94-107), driven in  *)
(* the order unittest calls them: setUpClass, then for each test the body   *)
(* and tearDown, then tearDownClass.                                        *)
(*                                                                         *)
(* A connection spec is a dict over the keys host, port and database; each *)
(* value says whether the key is set.  A host is a sequence of tokens, so  *)
(* that host.startswith('/') can be computed.                               *)
(***************************************************************************)
Loopback == <<"127.0.0.1">>

Unset(k) == [set |-> FALSE,
             v |-> IF k = "host" THEN <<>> ELSE IF k = "port" THEN 0 ELSE <<"">>]

Val(x) == [set |-> TRUE, v |-> x]

SpecKeys == {"host", "port", "database"}

NoSpec == [k \in SpecKeys |-> Unset(k)]

\* what cluster.get_connection_spec() can return: no host, a socket
\* directory, a host name or the loopback address, and a port
ClusterHosts ==
    {Unset("host"), Val(<<"/", "tmp">>), Val(<<"db">>), Val(Loopback)}

ClusterPorts == {5432, 5433}

\* the ports the proxy can be given when it starts to listen
ListenPorts == {5432, 6000}

\* the keyword arguments test code passes to connect() / create_pool()
Kwargs ==
    {[k \in SpecKeys |-> IF k = "host" THEN h ELSE IF k = "port" THEN p ELSE d] :
        h \in {Unset("host"), Val(<<"db">>), Val(Loopback)},
        p \in {Unset("port"), Val(5432)},
        d \in {Unset("database"), Val(<<"postgres">>)}}

\* dict.update
dict_update(d, kw) == [k \in SpecKeys |-> IF kw[k].set THEN kw[k] ELSE d[k]]

\* the fuzzer.TCPFuzzingProxy collaborator
NoProxy ==
    [status |-> "none", backend_host |-> <<>>, backend_port |-> 0,
     listening_addr |-> <<>>, listening_port |-> 0, faulty |-> FALSE,
     starts |-> 0, stops |-> 0, resets |-> 0]

TCPFuzzingProxy(backend_host, backend_port) ==
    [NoProxy EXCEPT !.status = "created", !.backend_host = backend_host,
                    !.backend_port = backend_port]

\* proxy.start(): the proxy listens on the loopback address, on a port that
\* is free there
Proxy_start(p, port) ==
    [p EXCEPT !.status = "listening", !.listening_addr = Loopback,
              !.listening_port = port, !.starts = @ + 1]

Proxy_stop(p) == [p EXCEPT !.status = "stopped", !.stops = @ + 1]

\* proxy.reset(): the fault-injection state is cleared, the listening socket
\* stays
Proxy_reset(p) == [p EXCEPT !.faulty = FALSE, !.resets = @ + 1]

\* lines 249-254: the backend host the proxy relays to
backend_host_of(conn_spec) ==
    IF ~conn_spec["host"].set \/ conn_spec["host"].v = <<>> THEN Loopback
    ELSE IF conn_spec["host"].v[1] = "/" THEN Loopback
    ELSE conn_spec["host"].v

\* lines 216-217: ClusterTestCase.get_connection_spec
ClusterTestCase_get_connection_spec == cls_cluster

\* get_connection_spec as it would be without the override of lines 268-273
get_connection_spec_not_overridden == ClusterTestCase_get_connection_spec

\* lines 268-273: ProxiedClusterTestCase.get_connection_spec
ProxiedClusterTestCase_get_connection_spec ==
    [cls_cluster EXCEPT !["host"] = Val(proxy.listening_addr),
                        !["port"] = Val(proxy.listening_port)]

\* lines 219-227: conn_spec = self.get_connection_spec();
\* conn_spec.update(kwargs), handed to create_pool / connect
merged_spec(kwargs) ==
    dict_update(ProxiedClusterTestCase_get_connection_spec, kwargs)

\* lines 275-277: what tearDown does to the proxy
tearDown_without_reset(p) == p

tearDown_proxy(p) == Proxy_reset(p)

NoLastSpec == [op |-> "none", kwargs |-> NoSpec, spec |-> NoSpec]

\* lines 247-259 (with 210-213 and 94-102): setUpClass.  The cluster hands
\* out host and port; `fail` says which collaborator call raises.
ProxiedClusterTestCase_setUpClass(host, port, listen, fail) ==
    /\ cpc = "new"
    /\ LET conn_spec == [NoSpec EXCEPT !["host"] = host, !["port"] = Val(port)]
           p == TCPFuzzingProxy(backend_host_of(conn_spec), port)
       IN  \/ /\ fail = "cluster"
              /\ cls_loop' = "open"
              /\ hooks' = hooks \o <<"new_event_loop", "setup_cluster">>
              /\ cpc' = "setup_failed"
              /\ UNCHANGED <<cls_cluster, proxy>>
           \/ /\ fail = "proxy"
              /\ cls_loop' = "open"
              /\ cls_cluster' = conn_spec
              /\ proxy' = p
              /\ hooks' = hooks \o <<"new_event_loop", "setup_cluster",
                                     "proxy.start">>
              /\ cpc' = "setup_failed"
           \/ /\ fail = "none"
              \* the port must be free on the loopback address
              /\ ~(p.backend_host = Loopback /\ listen = port)
              /\ cls_loop' = "open"
              /\ cls_cluster' = conn_spec
              /\ proxy' = Proxy_start(p, listen)
              /\ hooks' = hooks \o <<"new_event_loop", "setup_cluster",
                                     "proxy.start">>
              /\ cpc' = "ready"
    /\ UNCHANGED <<testLog, lastSpec, specOps>>
    /\ UNCHANGED notProxyVars

\* unittest starts the next test of the class: setUp (inherited, empty) and
\* the beginning of the test body
TestBodyStarts ==
    /\ cpc = "ready"
    /\ Len(testLog) < MaxTests
    /\ cpc' = "in_test"
    /\ testLog' = Append(testLog,
           [clean |-> ~proxy.faulty, listening |-> proxy.status = "listening",
            starts |-> proxy.starts, injected |-> FALSE])
    /\ UNCHANGED <<cls_loop, cls_cluster, proxy, hooks, lastSpec, specOps>>
    /\ UNCHANGED notProxyVars

\* the test body sets a fault condition on the proxy
InjectFault ==
    /\ cpc = "in_test"
    /\ ~proxy.faulty
    /\ proxy' = [proxy EXCEPT !.faulty = TRUE]
    /\ testLog' = [testLog EXCEPT ![Len(testLog)].injected = TRUE]
    /\ UNCHANGED <<cpc, cls_loop, cls_cluster, hooks, lastSpec, specOps>>
    /\ UNCHANGED notProxyVars

\* lines 268-273, called by test code or between tests
get_connection_spec ==
    /\ cpc \in {"ready", "in_test"}
    /\ specOps < MaxSpecOps
    /\ specOps' = specOps + 1
    /\ lastSpec' = [op |-> "get_connection_spec", kwargs |-> NoSpec,
                    spec |-> ProxiedClusterTestCase_get_connection_spec]
    /\ UNCHANGED <<cpc, cls_loop, cls_cluster, proxy, hooks, testLog>>
    /\ UNCHANGED notProxyVars

\* lines 219-227: self.connect(**kwargs) or self.create_pool(**kwargs)
connect_or_create_pool(op, kwargs) ==
    /\ cpc = "in_test"
    /\ specOps < MaxSpecOps
    /\ specOps' = specOps + 1
    /\ lastSpec' = [op |-> op, kwargs |-> kwargs, spec |-> merged_spec(kwargs)]
    /\ UNCHANGED <<cpc, cls_loop, cls_cluster, proxy, hooks, testLog>>
    /\ UNCHANGED notProxyVars

\* lines 275-277: tearDown, which unittest calls after the test body whether
\* it returned or raised
ProxiedClusterTestCase_tearDown ==
    /\ cpc = "in_test"
    /\ proxy' = tearDown_proxy(proxy)
    /\ cpc' = "ready"
    /\ UNCHANGED <<cls_loop, cls_cluster, hooks, testLog, lastSpec, specOps>>
    /\ UNCHANGED notProxyVars

\* lines 104-107: TestCase.tearDownClass
TestCase_tearDownClass(log) == log \o <<"loop.close", "set_event_loop(None)">>

\* tearDownClass with the two statements of lines 264-265 exchanged
tearDownClass_super_first(log) ==
    Append(TestCase_tearDownClass(log), "proxy.stop")

\* lines 264-265: the calls tearDownClass makes when none of them raises
tearDownClass_calls(log) == TestCase_tearDownClass(Append(log, "proxy.stop"))

\* lines 263-266: tearDownClass; when proxy.stop() raises the superclass
\* hook is not reached
ProxiedClusterTestCase_tearDownClass(stop_raises) ==
    /\ cpc = "ready"
    /\ IF stop_raises
       THEN /\ hooks' = Append(hooks, "proxy.stop")
            /\ cpc' = "teardown_failed"
            /\ UNCHANGED <<proxy, cls_loop>>
       ELSE /\ proxy' = Proxy_stop(proxy)
            /\ hooks' = tearDownClass_calls(hooks)
            /\ cls_loop' = "closed"
            /\ cpc' = "torn_down"
    /\ UNCHANGED <<cls_cluster, testLog, lastSpec, specOps>>
    /\ UNCHANGED notProxyVars

\* the class exists, setUpClass was not called yet
NoProxied ==
    /\ cpc = "new"
    /\ cls_loop = "none"
    /\ cls_cluster = NoSpec
    /\ proxy = NoProxy
    /\ hooks = <<>>
    /\ testLog = <<>>
    /\ lastSpec = NoLastSpec
    /\ specOps = 0

InitProxied == NoProxied

NextProxied ==
    \/ \E host \in ClusterHosts : \E port \in ClusterPorts :
          \E listen \in ListenPorts :
             \E fail \in {"none", "cluster", "proxy"} :
                ProxiedClusterTestCase_setUpClass(host, port, listen, fail)
    \/ TestBodyStarts
    \/ InjectFault
    \/ get_connection_spec
    \/ \E op \in {"connect", "create_pool"} : \E kwargs \in Kwargs :
          connect_or_create_pool(op, kwargs)
    \/ ProxiedClusterTestCase_tearDown
    \/ \E stop_raises \in BOOLEAN :
          ProxiedClusterTestCase_tearDownClass(stop_raises)

(***************************************************************************)
(* Properties of ProxiedClusterTestCase (checked under SpecProxied).       *)
(***************************************************************************)
\* the spec s names the proxy's listening address and port
AtProxy(s) ==
    /\ s["host"] = Val(proxy.listening_addr)
    /\ s["port"] = Val(proxy.listening_port)

\* the spec s names the cluster's own endpoint: the host and port the
\* cluster hands out, or the backend the proxy relays to
AtCluster(s) ==
    /\ s["port"] = cls_cluster["port"]
    /\ \/ s["host"] = cls_cluster["host"]
       \/ s["host"] = Val(proxy.backend_host)

\* C12, as claimed: between setUpClass and tearDownClass the spec returned
\* by get_connection_spec(), and the merged spec connect()/create_pool()
\* hand to the connection collaborator, has the proxy's listening address
\* and port, never the cluster's own host/port.
C12_Original ==
    lastSpec.op # "none" => AtProxy(lastSpec.spec) /\ ~AtCluster(lastSpec.spec)

\* C12, amended: get_connection_spec() always returns the proxy's listening
\* address and port, never the cluster's own; the merged spec of connect()
\* and create_pool() has the proxy's value under each of host and port that
\* the caller's keyword arguments do not name, and the caller's value under
\* a key they name.
C12_ProxyUnlessOverridden ==
    /\ lastSpec.op = "get_connection_spec" =>
          AtProxy(lastSpec.spec) /\ ~AtCluster(lastSpec.spec)
    /\ lastSpec.op \in {"connect", "create_pool"} =>
          /\ lastSpec.spec["host"] =
                IF lastSpec.kwargs["host"].set THEN lastSpec.kwargs["host"]
                ELSE Val(proxy.listening_addr)
          /\ lastSpec.spec["port"] =
                IF lastSpec.kwargs["port"].set THEN lastSpec.kwargs["port"]
                ELSE Val(proxy.listening_port)
          /\ (~lastSpec.kwargs["host"].set /\ ~lastSpec.kwargs["port"].set)
                => ~AtCluster(lastSpec.spec)

\* a cluster that itself listens on the loopback address; connect() is
\* called with a database only and is sent to the proxy's port
C12_Witness ==
    /\ lastSpec.op = "connect"
    /\ lastSpec.kwargs["database"].set
    /\ ~lastSpec.kwargs["host"].set /\ ~lastSpec.kwargs["port"].set
    /\ cls_cluster["host"] = Val(Loopback)
    /\ AtProxy(lastSpec.spec)
    /\ lastSpec.spec["port"] # cls_cluster["port"]
    /\ lastSpec.spec["database"] = Val(<<"postgres">>)

\* the tests of the class whose tearDown has run
TestsTornDown == Len(testLog) - (IF cpc = "in_test" THEN 1 ELSE 0)

\* C13: for any sequence of tests of a proxied class, the proxy is reset in
\* the per-test tearDown after each test and before the next test body
\* starts, so every test body starts with the proxy in its clean
\* fault-injection state whatever earlier tests set; the listening socket is
\* not restarted between tests.
C13_CleanBetweenTests ==
    /\ \A i \in DOMAIN testLog :
          /\ testLog[i].clean
          /\ testLog[i].listening
          /\ testLog[i].starts = 1
    /\ cpc \in {"ready", "in_test"} =>
          /\ proxy.resets = TestsTornDown
          /\ proxy.starts = 1 /\ proxy.stops = 0 /\ proxy.status = "listening"
    /\ cpc = "ready" => ~proxy.faulty

\* the first test set a fault condition; the second test's body has started
C13_Witness ==
    /\ cpc = "in_test"
    /\ Len(testLog) = 2
    /\ testLog[1].injected
    /\ testLog[2].clean
    /\ proxy.resets = 1

\* the position of the call in the history of the class hooks, 0 if absent
RECURSIVE HookAt(_, _)
HookAt(call, i) ==
    IF i > Len(hooks) THEN 0
    ELSE IF hooks[i] = call THEN i
    ELSE HookAt(call, i + 1)

\* C18, as claimed: in the class teardown of ProxiedClusterTestCase the proxy
\* is stopped after the superclass teardown chain (which closes the class's
\* loop and clears the ambient loop pointer) has been called.
C18_Original ==
    cpc = "torn_down" =>
        /\ HookAt("loop.close", 1) > 0
        /\ HookAt("loop.close", 1) < HookAt("proxy.stop", 1)

\* C18, amended: in the class teardown of ProxiedClusterTestCase the proxy
\* is stopped on the class's loop before the superclass teardown chain is
\* called; the chain then closes the loop and clears the ambient loop
\* pointer, and it is not reached when stopping the proxy raises.
C18_ProxyStoppedBeforeLoopClosed ==
    /\ cpc = "torn_down" =>
          /\ proxy.status = "stopped" /\ proxy.stops = 1
          /\ cls_loop = "closed"
          /\ 0 < HookAt("proxy.stop", 1)
          /\ HookAt("proxy.stop", 1) < HookAt("loop.close", 1)
          /\ HookAt("loop.close", 1) < HookAt("set_event_loop(None)", 1)
    /\ cpc = "teardown_failed" =>
          /\ HookAt("proxy.stop", 1) > 0
          /\ HookAt("loop.close", 1) = 0
          /\ cls_loop = "open"
    /\ cpc \notin {"torn_down", "teardown_failed"} =>
          HookAt("proxy.stop", 1) = 0 /\ HookAt("loop.close", 1) = 0

\* a class that ran a test and was torn down
C18_Witness ==
    /\ cpc = "torn_down"
    /\ Len(testLog) >= 1
    /\ proxy.status = "stopped"
    /\ cls_loop = "closed"

(***************************************************************************)
(* _shutdown_cluster(cluster), lines 174-177, applied to one owned cluster *)
(* in any of the states _start_cluster can leave it in, by an explicit      *)
(* teardown or by the atexit handler, possibly more than once.              *)
(***************************************************************************)
\* the clusters _start_cluster leaves behind, returned or not
StartedClusters ==
    {_start_cluster(via, s, f).cluster :
        via \in {"default", "explicit"}, s \in Settings, f \in Failures}

\* one invocation of _shutdown_cluster
ShutdownCluster ==
    /\ Len(sd_log) < MaxShutdowns
    /\ sd_cluster' = _shutdown_cluster(sd_cluster)
    /\ sd_log' = Append(sd_log,
           [before |-> sd_cluster, after |-> _shutdown_cluster(sd_cluster)])
    /\ UNCHANGED sd_restarts
    /\ UNCHANGED notShutdownVars

\* test code stops the running cluster itself
TestStopsCluster ==
    /\ sd_cluster.status = "running"
    /\ sd_cluster' = Cluster_stop(sd_cluster)
    /\ UNCHANGED <<sd_log, sd_restarts>>
    /\ UNCHANGED notShutdownVars

\* test code starts the cluster it had stopped
TestStartsCluster(server_settings) ==
    /\ sd_cluster.status = "stopped"
    /\ sd_cluster.started > 0
    /\ sd_cluster.destroys = 0
    /\ sd_restarts < MaxRestarts
    /\ sd_restarts' = sd_restarts + 1
    /\ sd_cluster' = Cluster_start(sd_cluster, server_settings, TRUE)
    /\ UNCHANGED sd_log
    /\ UNCHANGED notShutdownVars

\* outside the shutdown specification: some owned cluster, nothing torn down
NoShutdown ==
    /\ sd_cluster = TempCluster("default")
    /\ sd_log = <<>>
    /\ sd_restarts = 0

InitShutdown ==
    /\ sd_cluster \in StartedClusters
    /\ sd_log = <<>>
    /\ sd_restarts = 0

NextShutdown ==
    \/ ShutdownCluster
    \/ TestStopsCluster
    \/ \E s \in Settings : TestStartsCluster(s)

(***************************************************************************)
(* Properties of _shutdown_cluster (checked under SpecShutdown).           *)
(***************************************************************************)
\* the calls an invocation made on the cluster, in order
CallsMade(e) ==
    SubSeq(e.after.calls, Len(e.before.calls) + 1, Len(e.after.calls))

\* C16: _shutdown_cluster calls cluster.stop() if and only if the cluster's
\* status is 'running' at that moment, and then calls cluster.destroy() in
\* every case (status stopped, initialized or running); stop is never called
\* on a cluster that is not running and destroy always follows stop.
C16_StopIffRunningThenDestroy ==
    \A i \in DOMAIN sd_log :
        /\ CallsMade(sd_log[i]) =
              IF sd_log[i].before.status = "running"
              THEN <<"stop", "destroy">> ELSE <<"destroy">>
        /\ sd_log[i].after.stops = sd_log[i].before.stops
              + (IF sd_log[i].before.status = "running" THEN 1 ELSE 0)
        /\ sd_log[i].after.destroys = sd_log[i].before.destroys + 1

\* a running cluster was stopped and destroyed
C16_Witness ==
    /\ Len(sd_log) = 1
    /\ sd_log[1].before.status = "running"
    /\ CallsMade(sd_log[1]) = <<"stop", "destroy">>
    /\ sd_cluster.status = "stopped"
    /\ sd_cluster.destroys = 1

\* C17, as claimed: cluster teardown is idempotent: invoking
\* _shutdown_cluster on a cluster that has already been torn down raises no
\* error and leaves the cluster in the same state as a single invocation,
\* nothing being stopped or destroyed a second time.
C17_Original ==
    \A i \in DOMAIN sd_log :
        sd_log[i].before.destroys > 0 =>
            /\ sd_log[i].after = sd_log[i].before
            /\ CallsMade(sd_log[i]) = <<>>

\* the fixture's environment outside the cluster specification
NoClusterEnv == pghost = FALSE /\ NoCluster

InitOfCluster ==
    /\ InitCluster /\ NoRun /\ NoTiming /\ NoHandler /\ InitMeta
    /\ NoProxied /\ NoShutdown

SpecCluster == InitOfCluster /\ [][NextCluster]_vars

InitOfRun ==
    /\ InitRun /\ NoClusterEnv /\ NoTiming /\ NoHandler /\ InitMeta
    /\ NoProxied /\ NoShutdown

SpecRun == InitOfRun /\ [][NextRun]_vars

InitOfTiming ==
    /\ NoTiming /\ NoClusterEnv /\ NoRun /\ NoHandler /\ InitMeta
    /\ NoProxied /\ NoShutdown

SpecTiming == InitOfTiming /\ [][NextTiming]_vars

InitOfHandler ==
    /\ InitHandler /\ NoClusterEnv /\ NoRun /\ NoTiming /\ InitMeta
    /\ NoProxied /\ NoShutdown

SpecHandler == InitOfHandler /\ [][NextHandler]_vars

InitOfMeta ==
    /\ InitMeta /\ NoClusterEnv /\ NoRun /\ NoTiming /\ NoHandler
    /\ NoProxied /\ NoShutdown

SpecMeta == InitOfMeta /\ [][NextMeta]_vars

InitOfProxied ==
    /\ InitProxied /\ NoClusterEnv /\ NoRun /\ NoTiming /\ NoHandler
    /\ InitMeta /\ NoShutdown

SpecProxied == InitOfProxied /\ [][NextProxied]_vars

InitOfShutdown ==
    /\ InitShutdown /\ NoClusterEnv /\ NoRun /\ NoTiming /\ NoHandler
    /\ InitMeta /\ NoProxied

SpecShutdown == InitOfShutdown /\ [][NextShutdown]_vars

=============================================================================
